---- MODULE Spec2Model ----
(***************************************************************************)
(* The two-layer sparse routing grid of compiler/router/grid.py.           *)
(*                                                                         *)
(* The grid object is the triple (map, source, target) plus its bounds ll  *)
(* and ur.  Every method of class grid is an operator from a grid value    *)
(* g = [map, source, target] to the grid value the method leaves behind,   *)
(* written with the recursion and the loops of the Python code, and one    *)
(* action per method applies it to the state.                              *)
(***************************************************************************)
EXTENDS Integers, Sequences, FiniteSets, TLC

VARIABLES
    map,        \* self.map: coordinate -> grid_cell, sparse
    source,     \* self.source: set of coordinates
    target,     \* self.target: set of coordinates
    ll,         \* self.ll: lower left bound, in grids
    ur,         \* self.ur: upper right bound, in grids
    track_width,\* self.track_width: the track pitch the grid was constructed with
    costs,      \* the class attributes VIA_COST, NONPREFERRED_COST, PREFERRED_COST
    raised,     \* the exception the constructor raised, "" when it returned a grid
    ret,        \* the value returned by the last call (FALSE when it returns None)
    last,       \* the last call: its name and its arguments
    pre,        \* history: the grid (map, source, target) right before the last call
    committed,  \* history: coordinates of the paths given to block_path and
                \* not explicitly unblocked (set_blocked(c, False), clear_blockages) since
    nops        \* number of calls made so far

vars == <<map, source, target, ll, ur, track_width, costs, raised,
          ret, last, pre, committed, nops>>

\* The longest call sequence explored.
MaxOps == 3

-----------------------------------------------------------------------------
(* Values *)

vector3d(x, y, z) == [x |-> x, y |-> y, z |-> z]

\* The costs of class grid, relative to a unit grid.
VIA_COST == 2

\* NONPREFERRED_COST as it would be if the jog cost what the comment above it
\* prices the detour at: 2 vias + preferred direction.
NONPREFERRED_COST_of_detour == 2 * VIA_COST + 1

NONPREFERRED_COST == 4
PREFERRED_COST == 1

\* A freshly constructed cell.
grid_cell == [blocked |-> FALSE, path |-> FALSE, source |-> FALSE, target |-> FALSE]

\* An argument n of a method is a vector3d or a list of vector3d.
Vec(c) == [kind |-> "vector3d", v |-> c, items |-> <<>>]
Coll(s) == [kind |-> "list", v |-> vector3d(0, 0, 0), items |-> s]
NoArg == [kind |-> "none", v |-> vector3d(0, 0, 0), items |-> <<>>]

\* isinstance(n, vector3d)
isinstance_vector3d(n) == n.kind = "vector3d"
\* isinstance(n, (list, tuple, set, frozenset))
isinstance_collection(n) == n.kind = "list"

\* The grid object as a value.
G == [map |-> map, source |-> source, target |-> target]

\* The coordinates an argument names, in order.
Flat(n) == IF isinstance_vector3d(n) THEN <<n.v>> ELSE n.items
Range(s) == {s[i] : i \in 1..Len(s)}

\* A loop "for item in n" over two or more items is unfolded in halves: the
\* grid after the whole list is the grid after the items of the first half,
\* in order, then the items of the second half applied to that grid.
\* Then(h, F) is F(h) with h evaluated before F is applied, which keeps
\* TLC's evaluation depth logarithmic in the length of the list.
Then(h, F(_)) == CHOOSE r \in {F(x) : x \in {h}} : TRUE
FirstHalf(s) == SubSeq(s, 1, Len(s) \div 2)
SecondHalf(s) == SubSeq(s, Len(s) \div 2 + 1, Len(s))
Coords(n) == Range(Flat(n))

\* round(x * (1 / w)) for integers x and w # 0: the integer nearest to x / w,
\* the even one of the two when x / w lies halfway.
round_div(x, w) ==
    LET n == IF w < 0 THEN -x ELSE x
        d == IF w < 0 THEN -w ELSE w
        q == n \div d
        r == n % d
    IN  IF 2 * r < d THEN q
        ELSE IF 2 * r > d THEN q + 1
        ELSE IF q % 2 = 0 THEN q ELSE q + 1

\* vector3d(x, y, 0).scale([1 / w, 1 / w, 1.0]).round()
scale_round(v, w) == vector3d(round_div(v.x, w), round_div(v.y, w), v.z)

-----------------------------------------------------------------------------
(* The methods of class grid *)

\* grid(lo, hi, width): the fields __init__ assigns.  1 / self.track_width
\* raises ZeroDivisionError for width 0, before ll, ur and map are assigned
\* (they are shown as the zero vector and the empty map, and no grid object
\* is returned); every other width, negative ones included, goes through.
grid(lo, hi, width) ==
    IF width = 0
    THEN [raised |-> "ZeroDivisionError",
          source |-> {}, target |-> {}, track_width |-> width,
          ll |-> vector3d(0, 0, 0), ur |-> vector3d(0, 0, 0), map |-> << >>]
    ELSE [raised |-> "",
          source |-> {}, target |-> {}, track_width |-> width,
          ll |-> scale_round(vector3d(lo.x, lo.y, 0), width),
          ur |-> scale_round(vector3d(hi.x, hi.y, 0), width),
          map |-> << >>]

RECURSIVE add_map(_, _)
\* add_map as it would be without the test "if n not in self.map".
add_map_overwrites(g, n) ==
    IF ~isinstance_vector3d(n)
    THEN IF n.items = <<>>
         THEN g
         ELSE IF Len(n.items) = 1
              THEN add_map(g, Vec(n.items[1]))
              ELSE Then(add_map(g, Coll(FirstHalf(n.items))),
                        LAMBDA h : add_map(h, Coll(SecondHalf(n.items))))
    ELSE [g EXCEPT !.map = [k \in DOMAIN g.map \cup {n.v} |->
                               IF k = n.v THEN grid_cell ELSE g.map[k]]]

add_map(g, n) ==
    IF ~isinstance_vector3d(n)
    THEN IF n.items = <<>>
         THEN g
         ELSE IF Len(n.items) = 1
              THEN add_map(g, Vec(n.items[1]))
              ELSE Then(add_map(g, Coll(FirstHalf(n.items))),
                        LAMBDA h : add_map(h, Coll(SecondHalf(n.items))))
    ELSE IF n.v \notin DOMAIN g.map
         THEN [g EXCEPT !.map = (n.v :> grid_cell) @@ g.map]
         ELSE g

RECURSIVE set_blocked(_, _, _)
\* set_blocked as it would be if blocking a cell also took it out of the
\* terminals, the reverse of what set_source and set_target do.
set_blocked_clears_terminals(g, n, value) ==
    IF ~isinstance_vector3d(n)
    THEN IF n.items = <<>>
         THEN g
         ELSE IF Len(n.items) = 1
              THEN set_blocked(g, Vec(n.items[1]), value)
              ELSE Then(set_blocked(g, Coll(FirstHalf(n.items)), value),
                        LAMBDA h : set_blocked(h, Coll(SecondHalf(n.items)), value))
    ELSE IF value
         THEN [add_map(g, n) EXCEPT !.map[n.v].blocked = TRUE,
                                    !.map[n.v].source = FALSE,
                                    !.map[n.v].target = FALSE,
                                    !.source = @ \ {n.v},
                                    !.target = @ \ {n.v}]
         ELSE [add_map(g, n) EXCEPT !.map[n.v].blocked = FALSE]

\* set_blocked as it would be with its default written into the cell:
\* self.map[n].blocked = True.
set_blocked_ignores_value(g, n, value) ==
    IF ~isinstance_vector3d(n)
    THEN IF n.items = <<>>
         THEN g
         ELSE IF Len(n.items) = 1
              THEN set_blocked(g, Vec(n.items[1]), value)
              ELSE Then(set_blocked(g, Coll(FirstHalf(n.items)), value),
                        LAMBDA h : set_blocked(h, Coll(SecondHalf(n.items)), value))
    ELSE [add_map(g, n) EXCEPT !.map[n.v].blocked = TRUE]

set_blocked(g, n, value) ==
    IF ~isinstance_vector3d(n)
    THEN IF n.items = <<>>
         THEN g
         ELSE IF Len(n.items) = 1
              THEN set_blocked(g, Vec(n.items[1]), value)
              ELSE Then(set_blocked(g, Coll(FirstHalf(n.items)), value),
                        LAMBDA h : set_blocked(h, Coll(SecondHalf(n.items)), value))
    ELSE [add_map(g, n) EXCEPT !.map[n.v].blocked = value]

\* is_blocked returns a value and changes the grid: [g, result].
RECURSIVE is_blocked(_, _)
\* is_blocked as it would be as a pure read, the absent cell read as not
\* blocked and not created.
is_blocked_pure(g, n) ==
    IF ~isinstance_vector3d(n)
    THEN IF n.items = <<>>
         THEN [g |-> g, result |-> FALSE]
         ELSE LET r == is_blocked(g, Vec(Head(n.items)))
              IN  IF r.result
                  THEN [g |-> r.g, result |-> TRUE]
                  ELSE is_blocked(r.g, Coll(Tail(n.items)))
    ELSE [g |-> g, result |-> n.v \in DOMAIN g.map /\ g.map[n.v].blocked]

\* is_blocked as it would be if the loop returned the answer of its first item.
is_blocked_first(g, n) ==
    IF ~isinstance_vector3d(n)
    THEN IF n.items = <<>>
         THEN [g |-> g, result |-> FALSE]
         ELSE is_blocked(g, Vec(Head(n.items)))
    ELSE LET g1 == add_map(g, n)
         IN  [g |-> g1, result |-> g1.map[n.v].blocked]

is_blocked(g, n) ==
    IF ~isinstance_vector3d(n)
    THEN IF n.items = <<>>
         THEN [g |-> g, result |-> FALSE]
         ELSE LET r == is_blocked(g, Vec(Head(n.items)))
              IN  IF r.result
                  THEN [g |-> r.g, result |-> TRUE]
                  ELSE is_blocked(r.g, Coll(Tail(n.items)))
    ELSE LET g1 == add_map(g, n)
         IN  [g |-> g1, result |-> g1.map[n.v].blocked]

RECURSIVE set_path(_, _, _)
\* set_path as it would be with the assignment of set_blocked copied into it:
\* self.map[n].blocked = value.
set_path_writes_blocked(g, n, value) ==
    IF isinstance_collection(n)
    THEN IF n.items = <<>>
         THEN g
         ELSE IF Len(n.items) = 1
              THEN set_path(g, Vec(n.items[1]), value)
              ELSE Then(set_path(g, Coll(FirstHalf(n.items)), value),
                        LAMBDA h : set_path(h, Coll(SecondHalf(n.items)), value))
    ELSE [add_map(g, n) EXCEPT !.map[n.v].blocked = value]

set_path(g, n, value) ==
    IF isinstance_collection(n)
    THEN IF n.items = <<>>
         THEN g
         ELSE IF Len(n.items) = 1
              THEN set_path(g, Vec(n.items[1]), value)
              ELSE Then(set_path(g, Coll(FirstHalf(n.items)), value),
                        LAMBDA h : set_path(h, Coll(SecondHalf(n.items)), value))
    ELSE [add_map(g, n) EXCEPT !.map[n.v].path = value]

\* clear_blockages as it would be if it reset the path flag as well.
clear_blockages_resets_path(g) ==
    [g EXCEPT !.map = [k \in DOMAIN g.map |->
                          [g.map[k] EXCEPT !.blocked = FALSE, !.path = FALSE]]]

clear_blockages(g) ==
    [g EXCEPT !.map = [k \in DOMAIN g.map |-> [g.map[k] EXCEPT !.blocked = FALSE]]]

\* clear_source as it would be without the line self.source = set().
clear_source_keeps_set(g) ==
    [g EXCEPT !.map = [k \in DOMAIN g.map |-> [g.map[k] EXCEPT !.source = FALSE]]]

\* clear_source as it would be if it reset the path flag as well.
clear_source_resets_path(g) ==
    [g EXCEPT !.map = [k \in DOMAIN g.map |->
                          [g.map[k] EXCEPT !.source = FALSE, !.path = FALSE]],
              !.source = {}]

clear_source(g) ==
    [g EXCEPT !.map = [k \in DOMAIN g.map |-> [g.map[k] EXCEPT !.source = FALSE]],
              !.source = {}]

RECURSIVE set_source(_, _)
\* set_source as it would be without the line self.map[n].blocked = False.
set_source_keeps_blocked(g, n) ==
    IF ~isinstance_vector3d(n)
    THEN IF n.items = <<>>
         THEN g
         ELSE IF Len(n.items) = 1
              THEN set_source(g, Vec(n.items[1]))
              ELSE Then(set_source(g, Coll(FirstHalf(n.items))),
                        LAMBDA h : set_source(h, Coll(SecondHalf(n.items))))
    ELSE [add_map(g, n) EXCEPT !.map[n.v].source = TRUE,
                               !.source = @ \cup {n.v}]

\* set_source as it would be with only the line self.source.add(n).
set_source_only_caches(g, n) ==
    IF ~isinstance_vector3d(n)
    THEN IF n.items = <<>>
         THEN g
         ELSE IF Len(n.items) = 1
              THEN set_source(g, Vec(n.items[1]))
              ELSE Then(set_source(g, Coll(FirstHalf(n.items))),
                        LAMBDA h : set_source(h, Coll(SecondHalf(n.items))))
    ELSE [g EXCEPT !.source = @ \cup {n.v}]

set_source(g, n) ==
    IF ~isinstance_vector3d(n)
    THEN IF n.items = <<>>
         THEN g
         ELSE IF Len(n.items) = 1
              THEN set_source(g, Vec(n.items[1]))
              ELSE Then(set_source(g, Coll(FirstHalf(n.items))),
                        LAMBDA h : set_source(h, Coll(SecondHalf(n.items))))
    ELSE [add_map(g, n) EXCEPT !.map[n.v].source = TRUE,
                               !.map[n.v].blocked = FALSE,
                               !.source = @ \cup {n.v}]

\* clear_target as it would be if it removed the target cells from the map.
clear_target_removes(g) ==
    [g EXCEPT !.map = [k \in {c \in DOMAIN g.map : ~g.map[c].target} |-> g.map[k]],
              !.target = {}]

\* clear_target as it would be if it only emptied the cached set.
clear_target_keeps_flags(g) == [g EXCEPT !.target = {}]

clear_target(g) ==
    [g EXCEPT !.map = [k \in DOMAIN g.map |-> [g.map[k] EXCEPT !.target = FALSE]],
              !.target = {}]

\* A coordinate within the declared bounds, ll.x <= x <= ur.x and
\* ll.y <= y <= ur.y.
InBounds(c) == ll.x <= c.x /\ c.x <= ur.x /\ ll.y <= c.y /\ c.y <= ur.y

RECURSIVE set_target(_, _)
\* set_target as it would be if it skipped a coordinate outside the bounds.
set_target_within_bounds(g, n) ==
    IF ~isinstance_vector3d(n)
    THEN IF n.items = <<>>
         THEN g
         ELSE IF Len(n.items) = 1
              THEN set_target(g, Vec(n.items[1]))
              ELSE Then(set_target(g, Coll(FirstHalf(n.items))),
                        LAMBDA h : set_target(h, Coll(SecondHalf(n.items))))
    ELSE IF InBounds(n.v)
         THEN [add_map(g, n) EXCEPT !.map[n.v].target = TRUE,
                                    !.map[n.v].blocked = FALSE,
                                    !.target = @ \cup {n.v}]
         ELSE g

set_target(g, n) ==
    IF ~isinstance_vector3d(n)
    THEN IF n.items = <<>>
         THEN g
         ELSE IF Len(n.items) = 1
              THEN set_target(g, Vec(n.items[1]))
              ELSE Then(set_target(g, Coll(FirstHalf(n.items))),
                        LAMBDA h : set_target(h, Coll(SecondHalf(n.items))))
    ELSE [add_map(g, n) EXCEPT !.map[n.v].target = TRUE,
                               !.map[n.v].blocked = FALSE,
                               !.target = @ \cup {n.v}]

RECURSIVE add_source(_, _)
add_source(g, track_list) ==
    IF track_list = <<>>
    THEN g
    ELSE IF Len(track_list) = 1
         THEN set_source(g, Vec(track_list[1]))
         ELSE Then(add_source(g, FirstHalf(track_list)),
                   LAMBDA h : add_source(h, SecondHalf(track_list)))

RECURSIVE add_target(_, _)
add_target(g, track_list) ==
    IF track_list = <<>>
    THEN g
    ELSE IF Len(track_list) = 1
         THEN set_target(g, Vec(track_list[1]))
         ELSE Then(add_target(g, FirstHalf(track_list)),
                   LAMBDA h : add_target(h, SecondHalf(track_list)))

\* column as it would be with the sweep including hi: range(lo, hi + 1, 1).
RECURSIVE column_inclusive(_, _, _)
column_inclusive(x, lo, hi) ==
    IF lo > hi
    THEN <<>>
    ELSE <<vector3d(x, lo, 0), vector3d(x, lo, 1)>> \o column_inclusive(x, lo + 1, hi)

\* for y in range(lo, hi, 1): append (x, y, 0), (x, y, 1)
RECURSIVE column(_, _, _)
column(x, lo, hi) ==
    IF lo >= hi
    THEN <<>>
    ELSE <<vector3d(x, lo, 0), vector3d(x, lo, 1)>> \o column(x, lo + 1, hi)

\* for x in range(lo, hi, 1): append (x, y, 0), (x, y, 1)
RECURSIVE row(_, _, _)
row(y, lo, hi) ==
    IF lo >= hi
    THEN <<>>
    ELSE <<vector3d(lo, y, 0), vector3d(lo, y, 1)>> \o row(y, lo + 1, hi)

perimeter_list(side) ==
    (IF side = "all" \/ side = "left" THEN column(ll.x, ll.y, ur.y) ELSE <<>>)
    \o (IF side = "all" \/ side = "right" THEN column(ur.x, ll.y, ur.y) ELSE <<>>)
    \o (IF side = "all" \/ side = "bottom" THEN row(ll.y, ll.x, ur.x) ELSE <<>>)
    \o (IF side = "all" \/ side = "top" THEN row(ur.y, ll.x, ur.x) ELSE <<>>)

add_perimeter_target(g, side) == set_target(g, Coll(perimeter_list(side)))

\* is_target as it would be if it materialized the cell first, as is_blocked does.
is_target_materializes(g, point) ==
    [g |-> add_map(g, Vec(point)), result |-> point \in g.target]

\* is_target returns a value: [g, result], g being the grid it leaves.
is_target(g, point) == [g |-> g, result |-> point \in g.target]

\* for y in range(lo, hi, 1): add_map((x, y, 0)); add_map((x, y, 1))
RECURSIVE add_all_grids_y(_, _, _, _)
add_all_grids_y(g, x, lo, hi) ==
    IF lo >= hi
    THEN g
    ELSE Then(add_map(add_map(g, Vec(vector3d(x, lo, 0))), Vec(vector3d(x, lo, 1))),
              LAMBDA h : add_all_grids_y(h, x, lo + 1, hi))

RECURSIVE add_all_grids_x(_, _, _)
add_all_grids_x(g, lo, hi) ==
    IF lo >= hi
    THEN g
    ELSE Then(add_all_grids_y(g, lo, ll.y, ur.y),
              LAMBDA h : add_all_grids_x(h, lo + 1, hi))

\* add_all_grids as it would be with the sweep of x including ur.x:
\* range(self.ll.x, self.ur.x + 1, 1).
add_all_grids_inclusive(g) == add_all_grids_x(g, ll.x, ur.x + 1)

add_all_grids(g) == add_all_grids_x(g, ll.x, ur.x)

\* The path object of block_path: its set_path and set_blocked apply the
\* grid's to each coordinate of the path, in order.
RECURSIVE path_set_path(_, _, _)
path_set_path(g, path, value) ==
    IF path = <<>>
    THEN g
    ELSE IF Len(path) = 1
         THEN set_path(g, Vec(path[1]), value)
         ELSE Then(path_set_path(g, FirstHalf(path), value),
                   LAMBDA h : path_set_path(h, SecondHalf(path), value))

RECURSIVE path_set_blocked(_, _, _)
path_set_blocked(g, path, value) ==
    IF path = <<>>
    THEN g
    ELSE IF Len(path) = 1
         THEN set_blocked(g, Vec(path[1]), value)
         ELSE Then(path_set_blocked(g, FirstHalf(path), value),
                   LAMBDA h : path_set_blocked(h, SecondHalf(path), value))

\* block_path as it would be without path.set_path(False).
block_path_keeps_path(g, path) == path_set_blocked(g, path, TRUE)

block_path(g, path) == path_set_blocked(path_set_path(g, path, FALSE), path, TRUE)

-----------------------------------------------------------------------------
(* Inputs *)

\* The coordinates the callers pass: the lower left corner of the bounds, a
\* coordinate on the upper layer, and a coordinate further right.
PtCorner == vector3d(0, 0, 0)
PtUpper == vector3d(1, 1, 1)
PtRight == vector3d(3, 0, 0)

Pts == {PtCorner, PtUpper, PtRight}

\* The lists the callers pass: empty, two orders, and all three coordinates.
Lists == {<< >>,
          <<PtCorner, PtUpper>>,
          <<PtRight, PtCorner>>,
          <<PtUpper, PtRight, PtCorner>>}

Args == {Vec(c) : c \in Pts} \cup {Coll(s) : s \in Lists}

Sides == {"all", "left", "right", "top", "bottom"}

-----------------------------------------------------------------------------
(* The calls *)

Call(op, n, value, side) == [op |-> op, arg |-> n, value |-> value, side |-> side]

\* A call on a constructed grid leaves the grid g2, returns r, and is recorded.
Done(g2, r, call, cm) ==
    /\ raised = ""
    /\ \E h \in {g2} :
           /\ map' = h.map
           /\ source' = h.source
           /\ target' = h.target
    /\ ret' = r
    /\ last' = call
    /\ pre' = G
    /\ committed' = cm
    /\ nops' = nops + 1
    /\ UNCHANGED <<ll, ur, track_width, costs, raised>>

AddMap ==
    /\ nops < MaxOps
    /\ \E n \in Args :
        Done(add_map(G, n), FALSE, Call("add_map", n, FALSE, ""), committed)

AddAllGrids ==
    /\ nops < MaxOps
    /\ Done(add_all_grids(G), FALSE, Call("add_all_grids", NoArg, FALSE, ""), committed)

SetBlocked ==
    /\ nops < MaxOps
    /\ \E n \in Args, value \in BOOLEAN :
        Done(set_blocked(G, n, value), FALSE, Call("set_blocked", n, value, ""),
             IF value THEN committed ELSE committed \ Coords(n))

IsBlocked ==
    /\ nops < MaxOps
    /\ \E n \in Args :
        LET r == is_blocked(G, n)
        IN  Done(r.g, r.result, Call("is_blocked", n, FALSE, ""), committed)

SetPath ==
    /\ nops < MaxOps
    /\ \E n \in Args, value \in BOOLEAN :
        Done(set_path(G, n, value), FALSE, Call("set_path", n, value, ""), committed)

ClearBlockages ==
    /\ nops < MaxOps
    /\ Done(clear_blockages(G), FALSE, Call("clear_blockages", NoArg, FALSE, ""), {})

ClearSource ==
    /\ nops < MaxOps
    /\ Done(clear_source(G), FALSE, Call("clear_source", NoArg, FALSE, ""), committed)

SetSource ==
    /\ nops < MaxOps
    /\ \E n \in Args :
        Done(set_source(G, n), FALSE, Call("set_source", n, FALSE, ""), committed)

ClearTarget ==
    /\ nops < MaxOps
    /\ Done(clear_target(G), FALSE, Call("clear_target", NoArg, FALSE, ""), committed)

SetTarget ==
    /\ nops < MaxOps
    /\ \E n \in Args :
        Done(set_target(G, n), FALSE, Call("set_target", n, FALSE, ""), committed)

AddSource ==
    /\ nops < MaxOps
    /\ \E track_list \in Lists :
        Done(add_source(G, track_list), FALSE,
             Call("add_source", Coll(track_list), FALSE, ""), committed)

AddTarget ==
    /\ nops < MaxOps
    /\ \E track_list \in Lists :
        Done(add_target(G, track_list), FALSE,
             Call("add_target", Coll(track_list), FALSE, ""), committed)

AddPerimeterTarget ==
    /\ nops < MaxOps
    /\ \E side \in Sides :
        Done(add_perimeter_target(G, side), FALSE,
             Call("add_perimeter_target", NoArg, FALSE, side), committed)

IsTarget ==
    /\ nops < MaxOps
    /\ \E point \in Pts :
        LET r == is_target(G, point)
        IN  Done(r.g, r.result, Call("is_target", Vec(point), FALSE, ""), committed)

BlockPath ==
    /\ nops < MaxOps
    /\ \E path \in Lists :
        Done(block_path(G, path), FALSE,
             Call("block_path", Coll(path), FALSE, ""), committed \cup Range(path))

Next ==
    \/ AddMap
    \/ AddAllGrids
    \/ SetBlocked
    \/ IsBlocked
    \/ SetPath
    \/ ClearBlockages
    \/ ClearSource
    \/ SetSource
    \/ ClearTarget
    \/ SetTarget
    \/ AddSource
    \/ AddTarget
    \/ AddPerimeterTarget
    \/ IsTarget
    \/ BlockPath

\* The state right after grid(lo, hi, width).
Constructed(lo, hi, width) ==
    /\ map = grid(lo, hi, width).map
    /\ source = grid(lo, hi, width).source
    /\ target = grid(lo, hi, width).target
    /\ ll = grid(lo, hi, width).ll
    /\ ur = grid(lo, hi, width).ur
    /\ track_width = grid(lo, hi, width).track_width
    /\ raised = grid(lo, hi, width).raised
    /\ costs = [VIA_COST |-> VIA_COST,
                NONPREFERRED_COST |-> NONPREFERRED_COST,
                PREFERRED_COST |-> PREFERRED_COST]
    /\ ret = FALSE
    /\ last = Call("__init__", NoArg, FALSE, "")
    /\ pre = [map |-> << >>, source |-> {}, target |-> {}]
    /\ committed = {}
    /\ nops = 0

\* The grid right after grid(lo, hi, 1): its bounds are lo and hi.
Fresh(lo, hi) == Constructed(lo, hi, 1)

Init == Fresh(vector3d(0, 0, 0), vector3d(2, 2, 0))

Spec == Init /\ [][Next]_vars

\* The calls that register and obstruct terminals, on grids of several bounds.
NextPerimeter ==
    \/ SetBlocked
    \/ SetSource
    \/ SetTarget
    \/ AddPerimeterTarget

\* Bounds: a square, the 4 x 4 grid, a wide one with a negative corner, and
\* two with an empty range (ur.y = ll.y; ur below and left of ll).
BoundsSet ==
    {<<vector3d(0, 0, 0), vector3d(2, 2, 0)>>,
     <<vector3d(0, 0, 0), vector3d(4, 4, 0)>>,
     <<vector3d(-1, 0, 0), vector3d(3, 1, 0)>>,
     <<vector3d(0, 1, 0), vector3d(2, 1, 0)>>,
     <<vector3d(1, 1, 0), vector3d(0, 0, 0)>>}

InitPerimeter == \E b \in BoundsSet : Fresh(b[1], b[2])

SpecPerimeter == InitPerimeter /\ [][NextPerimeter]_vars

\* Construction with several corners and track widths, zero and a negative
\* one included, followed by the calls that read the bounds.
LowerLefts == {vector3d(0, 0, 0), vector3d(-2, 0, 0)}
UpperRights == {vector3d(2, 2, 0), vector3d(4, 4, 0)}
TrackWidths == {-1, 0, 1, 2}

NextConstruct ==
    \/ AddAllGrids
    \/ AddPerimeterTarget
    \/ IsTarget

InitConstruct ==
    \E lo \in LowerLefts, hi \in UpperRights, width \in TrackWidths :
        Constructed(lo, hi, width)

SpecConstruct == InitConstruct /\ [][NextConstruct]_vars

-----------------------------------------------------------------------------
(* Properties *)

\* What the last call was given.
LastIs(op) == last.op = op
LastArg == Coords(last.arg)
IsBlockedNow(c) == is_blocked(G, Vec(c)).result
IsTargetNow(c) == is_target(G, c).result
Touched == DOMAIN map \cup DOMAIN pre.map \cup Pts

\* C1: in every reachable state the cached set source holds exactly the
\* materialized coordinates whose cell has source = true, and the cached set
\* target exactly those whose cell has target = true.
C1_CachedSetsMatchFlags ==
    /\ source = {c \in DOMAIN map : map[c].source}
    /\ target = {c \in DOMAIN map : map[c].target}

\* Both sets are populated, differ, and some cell is in neither, after a clear.
C1_Witness ==
    /\ LastIs("clear_source")
    /\ pre.source # {}
    /\ target # {}
    /\ \E c \in DOMAIN map : ~map[c].source /\ ~map[c].target

\* C2: right after set_source / add_source (set_target / add_target) of a
\* coordinate or of a list, every coordinate c given is reported unblocked by
\* is_blocked, has its source (target) flag set and is in the cached set,
\* whatever its cell was before (blocked, or not materialized).
C2_TerminalOverridesBlockage ==
    /\ (LastIs("set_source") \/ LastIs("add_source")) =>
           \A c \in LastArg :
               /\ ~IsBlockedNow(c)
               /\ c \in DOMAIN map /\ map[c].source /\ ~map[c].blocked
               /\ c \in source
    /\ (LastIs("set_target") \/ LastIs("add_target")) =>
           \A c \in LastArg :
               /\ ~IsBlockedNow(c)
               /\ c \in DOMAIN map /\ map[c].target /\ ~map[c].blocked
               /\ c \in target

\* A list was registered, one coordinate of it blocked before the call and
\* another one not materialized before the call.
C2_Witness ==
    /\ LastIs("set_source") \/ LastIs("add_target")
    /\ last.arg.kind = "list"
    /\ \E c \in LastArg : c \in DOMAIN pre.map /\ pre.map[c].blocked
    /\ \E c \in LastArg : c \notin DOMAIN pre.map

\* C3: right after block_path(P) every coordinate of P is materialized, is
\* blocked (is_blocked reports true) and has path = false, whatever its flags
\* were before the call.
C3_BlockPath ==
    LastIs("block_path") =>
        \A c \in LastArg :
            /\ c \in DOMAIN map
            /\ map[c].blocked
            /\ ~map[c].path
            /\ IsBlockedNow(c)

\* A path of three coordinates was committed, one of them marked as path and
\* not blocked before the call.
C3_Witness ==
    /\ LastIs("block_path")
    /\ Len(last.arg.items) = 3
    /\ \E c \in LastArg :
           c \in DOMAIN pre.map /\ pre.map[c].path /\ ~pre.map[c].blocked

\* The coordinates of one bounding edge, both layers: the left and right
\* columns sweep y over ll.y <= y < ur.y, the bottom and top rows sweep x
\* over ll.x <= x < ur.x.
Layers == {0, 1}
Edge(side) ==
    (IF side \in {"all", "left"}
     THEN {vector3d(ll.x, y, l) : y \in ll.y..(ur.y - 1), l \in Layers} ELSE {})
    \cup (IF side \in {"all", "right"}
          THEN {vector3d(ur.x, y, l) : y \in ll.y..(ur.y - 1), l \in Layers} ELSE {})
    \cup (IF side \in {"all", "bottom"}
          THEN {vector3d(x, ll.y, l) : x \in ll.x..(ur.x - 1), l \in Layers} ELSE {})
    \cup (IF side \in {"all", "top"}
          THEN {vector3d(x, ur.y, l) : x \in ll.x..(ur.x - 1), l \in Layers} ELSE {})

\* The calls that register terminals, and the coordinates a call registers.
RegistersTerminals ==
    last.op \in {"set_source", "set_target", "add_source", "add_target",
                 "add_perimeter_target"}
Registered ==
    IF LastIs("add_perimeter_target") THEN Edge(last.side) ELSE LastArg

\* C4 as stated: every coordinate of a committed path is blocked in every
\* later state, as long as no set_blocked(c, False) and no clear_blockages()
\* was called on it.
C4_CommittedStaysBlocked ==
    \A c \in committed : c \in DOMAIN map /\ map[c].blocked

\* C4 amended: a coordinate of a committed path that was blocked before a
\* call is still blocked after it, unless the call is set_blocked(c, False)
\* or clear_blockages(), or the call registers that very coordinate as a
\* source or a target.
C4_CommittedStaysBlockedUnlessTerminal ==
    \A c \in committed :
        (c \in DOMAIN pre.map /\ pre.map[c].blocked) =>
            \/ c \in DOMAIN map /\ map[c].blocked
            \/ RegistersTerminals /\ c \in Registered

\* The next job's target was registered next to a committed path, which is
\* still blocked.
C4_Witness ==
    /\ LastIs("set_target")
    /\ LastArg # {}
    /\ \E c \in committed :
           /\ c \notin LastArg
           /\ c \in DOMAIN pre.map /\ pre.map[c].blocked
           /\ map[c].blocked

\* C5: on a fresh grid with ll = (0, 0) and ur = (4, 4), after
\* add_perimeter_target("all") is_target is true of every (x, y, layer) with
\* x in {0, 4} or y in {0, 4}, and false of every interior coordinate.
C5_PerimeterAllOfSquare ==
    (/\ ll = vector3d(0, 0, 0)
     /\ ur = vector3d(4, 4, 0)
     /\ nops = 1
     /\ LastIs("add_perimeter_target")
     /\ last.side = "all") =>
        \A x \in 0..4, y \in 0..4, l \in Layers :
            IsTargetNow(vector3d(x, y, l)) <=> (x \in {0, 4} \/ y \in {0, 4})

\* C6: add_perimeter_target(side) adds exactly the coordinates of the edge
\* (of the four edges for "all") to the target set and keeps the targets
\* registered before; every coordinate of the edge ends materialized with
\* target = true and blocked = false; no other cell is created or changed.
C6_PerimeterEdges ==
    LastIs("add_perimeter_target") =>
        /\ target = pre.target \cup Edge(last.side)
        /\ DOMAIN map = DOMAIN pre.map \cup Edge(last.side)
        /\ \A c \in Edge(last.side) : map[c].target /\ ~map[c].blocked
        /\ \A c \in DOMAIN pre.map \ Edge(last.side) : map[c] = pre.map[c]
        /\ source = pre.source

\* One edge was registered on a grid that already had a target off that
\* edge, a blocked cell on that edge, and a blocked cell off it.
C6_Witness ==
    /\ LastIs("add_perimeter_target")
    /\ last.side # "all"
    /\ pre.target \ Edge(last.side) # {}
    /\ \E c \in Edge(last.side) : c \in DOMAIN pre.map /\ pre.map[c].blocked
    /\ \E c \in DOMAIN pre.map \ Edge(last.side) : pre.map[c].blocked

\* C7: is_blocked(c) of a coordinate that is not a key of the map returns
\* false and leaves c a key of the map with blocked = false; no other cell
\* and neither cached set changes.
C7_IsBlockedMaterializes ==
    (/\ LastIs("is_blocked")
     /\ isinstance_vector3d(last.arg)
     /\ last.arg.v \notin DOMAIN pre.map) =>
        /\ ret = FALSE
        /\ DOMAIN map = DOMAIN pre.map \cup {last.arg.v}
        /\ ~map[last.arg.v].blocked
        /\ \A k \in DOMAIN pre.map : map[k] = pre.map[k]
        /\ source = pre.source
        /\ target = pre.target

\* A coordinate absent from a grid with a blocked cell and a target was read.
C7_Witness ==
    /\ LastIs("is_blocked")
    /\ isinstance_vector3d(last.arg)
    /\ last.arg.v \notin DOMAIN pre.map
    /\ \E k \in DOMAIN pre.map : pre.map[k].blocked
    /\ pre.target # {}

\* C8: is_target(c) returns whether c is in the cached target set and leaves
\* the map (its keys and every flag), source and target as they were; it
\* never materializes c.
C8_IsTargetPure ==
    LastIs("is_target") =>
        /\ ret = (last.arg.v \in pre.target)
        /\ map = pre.map
        /\ source = pre.source
        /\ target = pre.target

\* A coordinate that is no key of the map was queried on a grid with targets.
C8_Witness ==
    /\ LastIs("is_target")
    /\ last.arg.v \notin DOMAIN map
    /\ target # {}

\* C9: every coordinate materialized before a call is still materialized
\* after it.
C9_MapOnlyGrows == DOMAIN pre.map \subseteq DOMAIN map

\* A clearing call or block_path ran on a grid of at least two cells.
C9_Witness ==
    /\ last.op \in {"clear_blockages", "clear_source", "clear_target", "block_path"}
    /\ Cardinality(DOMAIN pre.map) >= 2
    /\ pre.source # {}

\* C10: after clear_source() the source set is empty and no cell has source
\* = true, while the target set and every target flag are as before; after
\* clear_target() the target set is empty, no cell has target = true and
\* is_target is false everywhere, while the source set and every source flag
\* are as before.
C10_ClearTerminals ==
    /\ LastIs("clear_source") =>
           /\ source = {}
           /\ \A k \in DOMAIN map : ~map[k].source
           /\ target = pre.target
           /\ DOMAIN map = DOMAIN pre.map
           /\ \A k \in DOMAIN map : map[k].target = pre.map[k].target
    /\ LastIs("clear_target") =>
           /\ target = {}
           /\ \A k \in DOMAIN map : ~map[k].target
           /\ \A c \in Touched : ~IsTargetNow(c)
           /\ source = pre.source
           /\ DOMAIN map = DOMAIN pre.map
           /\ \A k \in DOMAIN map : map[k].source = pre.map[k].source

\* The targets were cleared on a grid that had sources and targets.
C10_Witness ==
    /\ LastIs("clear_target")
    /\ pre.target # {}
    /\ source # {}

\* C11: set_blocked(c, True), of a coordinate or of a list, and block_path
\* leave the source and target flags of every cell and the cached source and
\* target sets as they were before the call, while every coordinate given
\* ends blocked; set_blocked leaves every path flag as it was too.
C11_BlockingKeepsTerminals ==
    ((LastIs("set_blocked") /\ last.value) \/ LastIs("block_path")) =>
        /\ source = pre.source
        /\ target = pre.target
        /\ \A k \in DOMAIN pre.map :
               /\ map[k].source = pre.map[k].source
               /\ map[k].target = pre.map[k].target
        /\ \A c \in LastArg : map[c].blocked
        /\ LastIs("set_blocked") =>
               \A k \in DOMAIN pre.map : map[k].path = pre.map[k].path

\* A list was blocked that holds a terminal which was marked as path and not
\* blocked before the call.
C11_Witness ==
    /\ LastIs("set_blocked")
    /\ last.value
    /\ last.arg.kind = "list"
    /\ \E c \in LastArg :
           /\ c \in pre.source \cup pre.target
           /\ pre.map[c].path
           /\ ~pre.map[c].blocked
           /\ map[c].blocked

\* C12: is_blocked of a list returns true exactly when some coordinate of the
\* list was materialized with blocked = true before the call (false for the
\* empty list), and leaves every cell materialized before the call as it was.
C12_IsBlockedOfCollection ==
    (LastIs("is_blocked") /\ last.arg.kind = "list") =>
        /\ ret = (\E c \in LastArg : c \in DOMAIN pre.map /\ pre.map[c].blocked)
        /\ \A k \in DOMAIN pre.map : map[k] = pre.map[k]

\* A list was read whose first coordinate was not materialized before the
\* call and whose last coordinate was blocked.
C12_Witness ==
    /\ LastIs("is_blocked")
    /\ last.arg.kind = "list"
    /\ Len(last.arg.items) >= 2
    /\ Head(last.arg.items) \notin DOMAIN pre.map
    /\ \E c \in LastArg : c \in DOMAIN pre.map /\ pre.map[c].blocked
    /\ ret = TRUE

\* C13: clear_blockages() leaves every materialized cell with blocked =
\* false and changes nothing else: the keys of the map, the path, source and
\* target flag of every cell and the cached sets are as before the call.
C13_ClearBlockages ==
    LastIs("clear_blockages") =>
        /\ DOMAIN map = DOMAIN pre.map
        /\ \A k \in DOMAIN map :
               /\ ~map[k].blocked
               /\ map[k].path = pre.map[k].path
               /\ map[k].source = pre.map[k].source
               /\ map[k].target = pre.map[k].target
        /\ source = pre.source
        /\ target = pre.target

\* The blockages were cleared on a grid with a cell that was blocked and
\* marked as path, and a cell that was not blocked.
C13_Witness ==
    /\ LastIs("clear_blockages")
    /\ \E k \in DOMAIN pre.map : pre.map[k].blocked /\ pre.map[k].path /\ map[k].path
    /\ \E k \in DOMAIN pre.map : ~pre.map[k].blocked

\* C14: add_map of a coordinate or a list keeps every cell materialized
\* before the call as it was, adds exactly the absent coordinates given, each
\* with its four flags false, leaves the cached sets alone, and a second
\* add_map of the same argument changes nothing; and set_blocked, set_path,
\* set_source and set_target leave, on every cell materialized before the
\* call, the flags they do not name as they were (set_source and set_target
\* name blocked besides their own flag).
C14_AddMapIdempotent ==
    /\ LastIs("add_map") =>
           /\ DOMAIN map = DOMAIN pre.map \cup LastArg
           /\ \A k \in DOMAIN pre.map : map[k] = pre.map[k]
           /\ \A k \in DOMAIN map \ DOMAIN pre.map : map[k] = grid_cell
           /\ source = pre.source
           /\ target = pre.target
           /\ add_map(G, last.arg) = G
    /\ LastIs("set_blocked") =>
           \A k \in DOMAIN pre.map :
               /\ map[k].path = pre.map[k].path
               /\ map[k].source = pre.map[k].source
               /\ map[k].target = pre.map[k].target
    /\ LastIs("set_path") =>
           \A k \in DOMAIN pre.map :
               /\ map[k].blocked = pre.map[k].blocked
               /\ map[k].source = pre.map[k].source
               /\ map[k].target = pre.map[k].target
    /\ LastIs("set_source") =>
           \A k \in DOMAIN pre.map :
               /\ map[k].path = pre.map[k].path
               /\ map[k].target = pre.map[k].target
    /\ LastIs("set_target") =>
           \A k \in DOMAIN pre.map :
               /\ map[k].path = pre.map[k].path
               /\ map[k].source = pre.map[k].source

\* add_map was given a list with a coordinate that was blocked or a terminal
\* before the call and a coordinate that was not materialized.
C14_Witness ==
    /\ LastIs("add_map")
    /\ last.arg.kind = "list"
    /\ \E c \in LastArg :
           /\ c \in DOMAIN pre.map
           /\ pre.map[c].blocked \/ pre.map[c].source
           /\ map[c] = pre.map[c]
    /\ \E c \in LastArg : c \notin DOMAIN pre.map

\* The grid no call has touched.
EmptyGrid == [map |-> << >>, source |-> {}, target |-> {}]

\* C15: right after set_blocked(c, False), of a coordinate or of a list,
\* is_blocked is false of every coordinate given, and right after
\* clear_blockages() it is false of every coordinate, as it is of a
\* coordinate of a grid no call has touched, whether or not the coordinate
\* was blocked before; clearing a second time leaves the grid as it is.
C15_BlockedRoundTrip ==
    /\ (LastIs("set_blocked") /\ ~last.value) =>
           /\ \A c \in LastArg :
                  /\ ~IsBlockedNow(c)
                  /\ IsBlockedNow(c) = is_blocked(EmptyGrid, Vec(c)).result
           /\ set_blocked(G, last.arg, FALSE) = G
    /\ LastIs("clear_blockages") =>
           /\ \A c \in Touched :
                  /\ ~IsBlockedNow(c)
                  /\ IsBlockedNow(c) = is_blocked(EmptyGrid, Vec(c)).result
           /\ clear_blockages(G) = G

\* A coordinate blocked by set_blocked(c, True) was unblocked by
\* set_blocked(c, False).
C15_Witness ==
    /\ nops = 2
    /\ LastIs("set_blocked")
    /\ ~last.value
    /\ isinstance_vector3d(last.arg)
    /\ last.arg.v \in DOMAIN pre.map
    /\ pre.map[last.arg.v].blocked
    /\ pre.source = {} /\ pre.target = {}
    /\ \A k \in DOMAIN pre.map : ~pre.map[k].path

\* C16: in every reachable state VIA_COST is 2, PREFERRED_COST is 1 and
\* NONPREFERRED_COST is 4, and NONPREFERRED_COST < 2 * VIA_COST +
\* PREFERRED_COST: no call changes them.
C16_CostOrdering ==
    /\ costs.VIA_COST = 2
    /\ costs.PREFERRED_COST = 1
    /\ costs.NONPREFERRED_COST = 4
    /\ costs.NONPREFERRED_COST < 2 * costs.VIA_COST + costs.PREFERRED_COST

\* The costs are read after MaxOps calls that blocked cells and registered
\* terminals.
C16_Witness ==
    /\ nops = MaxOps
    /\ \E k \in DOMAIN map : map[k].blocked
    /\ source # {}
    /\ costs.NONPREFERRED_COST < 2 * costs.VIA_COST + costs.PREFERRED_COST

\* C17: grid(ll, ur, track_width) with track_width <= 0 raises an error and
\* leaves no grid to call; with track_width > 0 it raises nothing and the
\* grid starts with an empty map and empty source and target sets.
C17_ConstructionFailsFast ==
    /\ track_width <= 0 => (raised # "" /\ nops = 0)
    /\ track_width > 0 =>
           /\ raised = ""
           /\ nops = 0 => (map = << >> /\ source = {} /\ target = {})

\* The cell of c before the last call: the one in the map, or the fresh one
\* the call creates.
Before(c) == IF c \in DOMAIN pre.map THEN pre.map[c] ELSE grid_cell

\* What a call on the single coordinate c does to the grid, stated without
\* ll and ur.
EffectOn(c) ==
    /\ DOMAIN map = DOMAIN pre.map \cup {c}
    /\ \A k \in DOMAIN pre.map \ {c} : map[k] = pre.map[k]
    /\ LastIs("set_blocked") =>
           /\ map[c] = [Before(c) EXCEPT !.blocked = last.value]
           /\ source = pre.source /\ target = pre.target
    /\ LastIs("set_path") =>
           /\ map[c] = [Before(c) EXCEPT !.path = last.value]
           /\ source = pre.source /\ target = pre.target
    /\ LastIs("set_source") =>
           /\ map[c] = [Before(c) EXCEPT !.source = TRUE, !.blocked = FALSE]
           /\ source = pre.source \cup {c} /\ target = pre.target
    /\ LastIs("set_target") =>
           /\ map[c] = [Before(c) EXCEPT !.target = TRUE, !.blocked = FALSE]
           /\ source = pre.source /\ target = pre.target \cup {c}
    /\ LastIs("is_blocked") =>
           /\ map[c] = Before(c)
           /\ ret = Before(c).blocked
           /\ source = pre.source /\ target = pre.target
    /\ LastIs("add_map") =>
           /\ map[c] = Before(c)
           /\ source = pre.source /\ target = pre.target

\* C18: set_blocked, set_path, set_source, set_target, is_blocked and add_map
\* of a single coordinate raise nothing and materialize the cell and write or
\* read its flag in the same way whether the coordinate lies within ll and
\* ur or outside of them.
C18_OutOfBoundsAccepted ==
    (/\ last.op \in {"set_blocked", "set_path", "set_source", "set_target",
                     "is_blocked", "add_map"}
     /\ isinstance_vector3d(last.arg)) =>
        /\ raised = ""
        /\ ~InBounds(last.arg.v) => EffectOn(last.arg.v)
        /\ InBounds(last.arg.v) => EffectOn(last.arg.v)

\* A coordinate right of ur, blocked before the call, was registered as a
\* target on a grid holding a cell within the bounds.
C18_Witness ==
    /\ LastIs("set_target")
    /\ isinstance_vector3d(last.arg)
    /\ ~InBounds(last.arg.v)
    /\ last.arg.v \in DOMAIN pre.map
    /\ pre.map[last.arg.v].blocked
    /\ last.arg.v \in target
    /\ \E k \in DOMAIN pre.map : InBounds(k)

\* C19: in every reachable state every coordinate of the cached source set
\* and every coordinate of the cached target set is a key of the map.
C19_TerminalsMaterialized ==
    /\ source \subseteq DOMAIN map
    /\ target \subseteq DOMAIN map

\* Both sets hold coordinates, one of them outside the bounds, and the map
\* holds a cell that is in neither.
C19_Witness ==
    /\ source # {}
    /\ target # {}
    /\ \E c \in source \cup target : ~InBounds(c)
    /\ DOMAIN map \ (source \cup target) # {}

\* C20: clear_source() and clear_target() leave the keys of the map and the
\* blocked and path flag of every cell as they were; and from every reachable
\* grid, set_blocked(c, True); set_source(c); clear_source() leaves
\* is_blocked(c) false, and so does set_blocked(c, True); set_target(c);
\* clear_target().
C20_ClearKeepsBlockedAndPath ==
    /\ (LastIs("clear_source") \/ LastIs("clear_target")) =>
           /\ DOMAIN map = DOMAIN pre.map
           /\ \A k \in DOMAIN map :
                  /\ map[k].blocked = pre.map[k].blocked
                  /\ map[k].path = pre.map[k].path
    /\ \A c \in Pts :
           /\ ~is_blocked(clear_source(set_source(set_blocked(G, Vec(c), TRUE),
                                                  Vec(c))),
                          Vec(c)).result
           /\ ~is_blocked(clear_target(set_target(set_blocked(G, Vec(c), TRUE),
                                                  Vec(c))),
                          Vec(c)).result

\* A committed path coordinate was registered as a source and the sources
\* were cleared: the coordinate stays unblocked, next to a cell that is
\* still blocked.
C20_Witness ==
    /\ LastIs("clear_source")
    /\ \E c \in pre.source : c \in committed /\ ~map[c].blocked /\ ~IsBlockedNow(c)
    /\ \E k \in DOMAIN map : map[k].blocked

\* The coordinates within the bounds, the upper ones excluded, on both layers.
GridRegion ==
    {vector3d(x, y, l) : x \in ll.x..(ur.x - 1), y \in ll.y..(ur.y - 1), l \in Layers}

\* C21: add_all_grids() leaves as keys of the map the keys it had before and
\* the coordinates (x, y, l) with ll.x <= x < ur.x, ll.y <= y < ur.y and l in
\* {0, 1}, and no other; every cell that existed before the call is as it
\* was, every new cell has its four flags false, and the cached source and
\* target sets are as before.
C21_AddAllGrids ==
    LastIs("add_all_grids") =>
        /\ DOMAIN map = DOMAIN pre.map \cup GridRegion
        /\ \A k \in DOMAIN pre.map : map[k] = pre.map[k]
        /\ \A k \in DOMAIN map \ DOMAIN pre.map : map[k] = grid_cell
        /\ source = pre.source
        /\ target = pre.target

\* All grids were added to a map that held a flagged cell within the bounds
\* and a cell outside of them, and lacked some coordinate within the bounds.
C21_Witness ==
    /\ LastIs("add_all_grids")
    /\ \E c \in GridRegion :
           /\ c \in DOMAIN pre.map
           /\ pre.map[c].blocked \/ pre.map[c].source \/ pre.map[c].target
    /\ DOMAIN pre.map \ GridRegion # {}
    /\ GridRegion \ DOMAIN pre.map # {}
    /\ vector3d(ur.x, ll.y, 0) \notin DOMAIN map

====
